---- MODULE Spec2Model ----
(***************************************************************************)
(* EcoPlate recommendation engine (recommendation-engine/app.py).          *)
(*                                                                         *)
(* The engine is stateless: every operation is a pure function of its      *)
(* arguments and of the clock.  The state machine below records the call   *)
(* being served (op), its arguments (request) and what the call returned   *)
(* or raised (response); Return hands the response to the caller, after    *)
(* which the engine is idle again and holds nothing of the call.           *)
(*                                                                         *)
(* Numbers.  Python floats are modelled by exact fixed-point integers:     *)
(*   prices                 whole cents                                    *)
(*   distance_km            tenths of a kilometre                          *)
(*   urgency, perishability hundredths                                     *)
(*   discounts              1/10000                                        *)
(*   similarity sub-scores  1/SCALE                                        *)
(* round(x, n) is Python's documented round-half-to-even on the exact      *)
(* value; the representation error of binary floating point is not         *)
(* modelled.                                                               *)
(* Python's None is the integer None for numeric fields and the string     *)
(* NoneStr for string fields; a missing dict key reads as None (dict.get). *)
(* A raised exception is the response [exception |-> <type name>].         *)
(*                                                                         *)
(* The learned-model adapter (ml.price_predictor, ml.product_recommender)  *)
(* is the one component with shared state: the artifacts it has loaded.    *)
(* Its variables are models_dir (the version of the artifacts in storage,  *)
(* 0 for none), loaded (the artifacts the adapter refers to), reload_call  *)
(* (the reload in progress) and predict_calls (the requests in progress).  *)
(* AdapterSpec runs reloads concurrently with requests.                    *)
(* JSON lets a field hold a value of the wrong type: NotANumber is a       *)
(* non-numeric string where a number is expected, NotAString a number      *)
(* where a string is expected.                                             *)
(***************************************************************************)
EXTENDS Integers, Sequences, FiniteSets

VARIABLES op, request, response,
          models_dir, loaded, reload_call, predict_calls

engine_vars == <<op, request, response>>

adapter_vars == <<models_dir, loaded, reload_call, predict_calls>>

vars == <<op, request, response, models_dir, loaded, reload_call, predict_calls>>

(***************************************************************************)
(* Arithmetic helpers                                                      *)
(***************************************************************************)
Max(a, b) == IF a >= b THEN a ELSE b

Min(a, b) == IF a <= b THEN a ELSE b

Abs(a) == IF a >= 0 THEN a ELSE 0 - a

\* Python round(): n/d to the nearest integer, ties to the even one (d > 0).
RoundHalfEven(n, d) ==
    LET q == n \div d
        r == n % d
    IN  IF 2 * r < d THEN q
        ELSE IF 2 * r > d THEN q + 1
        ELSE IF q % 2 = 0 THEN q ELSE q + 1

None == 0 - 999999

NoneStr == "<None>"

NotANumber == 0 - 888888

NotAString == "<123>"

NoException == "<no exception>"

\* Python truthiness of an optional string: None and '' are falsy.
FalsyStr(s) == s = NoneStr \/ s = ""

\* str.lower() on the category spellings used as inputs.
Lower(s) ==
    CASE s = "Dairy" -> "dairy"
      [] s = "SEAFOOD" -> "seafood"
      [] s = "PRODUCE" -> "produce"
      [] s = "Produce" -> "produce"
      [] OTHER -> s

(***************************************************************************)
(* Expiry dates.  An expiry_date argument is None, the empty string, a     *)
(* string datetime.fromisoformat rejects, or an ISO timestamp; a timestamp *)
(* is given by its offset from the clock reading (datetime.now()) in       *)
(* whole hours.                                                            *)
(***************************************************************************)
MaxDays == 16

PastDays == 2

HoursPerDay == 24

ExpiryDates ==
    {[kind |-> "none", hours |-> 0],
     [kind |-> "empty", hours |-> 0],
     [kind |-> "invalid", hours |-> 0]}
    \cup {[kind |-> "iso", hours |-> HoursPerDay * d + h] :
            d \in (0 - PastDays)..MaxDays, h \in {0, HoursPerDay - 1}}

\* timedelta.days: the floor of the difference in days.
TimedeltaDays(hours) == hours \div HoursPerDay

(***************************************************************************)
(* ExpiryUrgencyScorer.calculate                                           *)
(* Returns [value |-> urgency in hundredths] or [exception |-> ...].       *)
(***************************************************************************)
UrgencyOfDaysSwappedSteps(days_until_expiry) ==
    IF days_until_expiry <= 0 THEN 100
    ELSE IF days_until_expiry <= 1 THEN 95
    ELSE IF days_until_expiry <= 3 THEN 50
    ELSE IF days_until_expiry <= 7 THEN 80
    ELSE IF days_until_expiry <= 14 THEN 30
    ELSE 10

UrgencyOfDaysExclusiveBounds(days_until_expiry) ==
    IF days_until_expiry < 0 THEN 100
    ELSE IF days_until_expiry < 1 THEN 95
    ELSE IF days_until_expiry < 3 THEN 80
    ELSE IF days_until_expiry < 7 THEN 50
    ELSE IF days_until_expiry < 14 THEN 30
    ELSE 10

UrgencyOfDays(days_until_expiry) ==
    IF days_until_expiry <= 0 THEN 100
    ELSE IF days_until_expiry <= 1 THEN 95
    ELSE IF days_until_expiry <= 3 THEN 80
    ELSE IF days_until_expiry <= 7 THEN 50
    ELSE IF days_until_expiry <= 14 THEN 30
    ELSE 10

ExpiryUrgencyScorer_calculate(expiry_date) ==
    IF expiry_date.kind \in {"none", "empty"} THEN [value |-> 50]
    ELSE IF expiry_date.kind = "invalid" THEN [exception |-> "ValueError"]
    ELSE [value |-> UrgencyOfDays(TimedeltaDays(expiry_date.hours))]

Raised(r) == "exception" \in DOMAIN r

(***************************************************************************)
(* PriceRecommender.calculate                                              *)
(***************************************************************************)
PerishabilityTable ==
    [dairy |-> 90, meat |-> 85, seafood |-> 80, produce |-> 85, bakery |-> 90,
     frozen |-> 95, canned |-> 98, beverages |-> 95, snacks |-> 95, other |-> 90]

Perishability(category) ==
    LET key == IF FalsyStr(category) THEN "other" ELSE Lower(category)
    IN  IF key \in DOMAIN PerishabilityTable THEN PerishabilityTable[key] ELSE 90

BaseDiscountHalfOfUrgency(urgency) == urgency * 50

\* urgency * 0.6, in 1/10000
BaseDiscount(urgency) == urgency * 60

CategoryAdjustmentOfRetention(perishability) == perishability * 20

\* (1 - perishability) * 0.2, in 1/10000
CategoryAdjustment(perishability) == (100 - perishability) * 20

\* min(base_discount + category_adjustment, 0.7), in 1/10000
TotalDiscount(urgency, perishability) ==
    Min(BaseDiscount(urgency) + CategoryAdjustment(perishability), 7000)

\* original_price * 0.3, in 1/10000 cent
MinPriceRaw(original_price) == original_price * 3000

\* original_price * (1 - total_discount), in 1/10000 cent
RecommendedPriceRaw(original_price, total_discount) ==
    original_price * (10000 - total_discount)

\* round(min_price, 2), in cents
MinPrice(original_price) == RoundHalfEven(MinPriceRaw(original_price), 10000)

MaxPriceBad(original_price, total_discount) ==
    RoundHalfEven(original_price * (20000 - 3 * total_discount), 20000)

\* round(original_price * (1 - total_discount * 0.5), 2), in cents
MaxPrice(original_price, total_discount) ==
    RoundHalfEven(original_price * (20000 - total_discount), 20000)

\* round(max(recommended_price, min_price), 2), in cents
RecommendedPrice(original_price, total_discount) ==
    RoundHalfEven(Max(RecommendedPriceRaw(original_price, total_discount),
                      MinPriceRaw(original_price)), 10000)

DiscountPercentageBad(total_discount) == RoundHalfEven(total_discount, 1)

\* round(total_discount * 100, 1), in tenths of a percent
DiscountPercentage(total_discount) == RoundHalfEven(total_discount, 10)

get_price_reasoning(urgency, category) ==
    IF urgency >= 90 THEN <<"Price reduced significantly", category>>
    ELSE IF urgency >= 70 THEN <<"Moderate discount applied", category>>
    ELSE IF urgency >= 40 THEN <<"Light discount", category>>
    ELSE <<"Minimal discount", category>>

PriceRecommender_calculate(original_price, expiry_date, category) ==
    LET u == ExpiryUrgencyScorer_calculate(expiry_date)
    IN  IF Raised(u) THEN u
        ELSE LET urgency == u.value
                 total_discount == TotalDiscount(urgency, Perishability(category))
             IN  [recommended_price |-> RecommendedPrice(original_price, total_discount),
                  min_price |-> MinPrice(original_price),
                  max_price |-> MaxPrice(original_price, total_discount),
                  discount_percentage |-> DiscountPercentage(total_discount),
                  urgency_score |-> urgency,
                  reasoning |-> get_price_reasoning(urgency, category)]

\* original_price is a float and need not be a whole number of cents.
\* PriceRecommender.calculate for an original_price given in tenths of a
\* cent; the returned prices are rounded to cents as above.
PriceRecommender_calculate_subcent(original_price, expiry_date, category) ==
    LET u == ExpiryUrgencyScorer_calculate(expiry_date)
    IN  IF Raised(u) THEN u
        ELSE LET urgency == u.value
                 total_discount == TotalDiscount(urgency, Perishability(category))
             IN  [recommended_price |->
                      RoundHalfEven(Max(RecommendedPriceRaw(original_price,
                                                            total_discount),
                                        MinPriceRaw(original_price)), 10 * 10000),
                  min_price |-> RoundHalfEven(MinPriceRaw(original_price), 10 * 10000),
                  max_price |-> RoundHalfEven(original_price * (20000 - total_discount),
                                              10 * 20000),
                  discount_percentage |-> DiscountPercentage(total_discount),
                  urgency_score |-> urgency,
                  reasoning |-> get_price_reasoning(urgency, category)]

MaxSmallPrice == 6

MaxSubCentPrice == 40

\* in tenths of a cent
SubCentPrices == 1..MaxSubCentPrice

\* The expiry dates of the calls with such a price: none, and timestamps
\* from the past to two days ahead.
SubCentExpiryDates ==
    {e \in ExpiryDates :
        e.kind = "none" \/ (e.kind = "iso" /\ TimedeltaDays(e.hours) <= 2)}

OriginalPrices ==
    {0 - 1000, 0 - 1, 0} \cup 1..MaxSmallPrice \cup {333, 1000, 2000, 10000}

PriceCategories ==
    DOMAIN PerishabilityTable \cup {"xyz_unknown", "", NoneStr, "Dairy", "SEAFOOD"}

(***************************************************************************)
(* SimilarProductsMatcher                                                  *)
(*                                                                         *)
(* A listing is a record with the fields the matcher reads; title and      *)
(* description are the sequences of word tokens of the two strings (the    *)
(* empty sequence for a missing or blank string).                          *)
(***************************************************************************)
SCALE == 1000 * 100

RELATED_CATEGORIES ==
    [produce |-> {"frozen"}, dairy |-> {"beverages"}, meat |-> {"frozen"},
     bakery |-> {"pantry"}, frozen |-> {"meat", "dairy"},
     beverages |-> {"dairy"}, pantry |-> {"bakery"}]

\* in hundredths
WEIGHTS ==
    [category |-> 35, text |-> 25, price |-> 15, distance |-> 15, freshness |-> 10]

calculate_category_score_symmetric(target_cat, candidate_cat) ==
    IF FalsyStr(target_cat) \/ FalsyStr(candidate_cat) THEN SCALE \div 2
    ELSE LET t == Lower(target_cat)
             c == Lower(candidate_cat)
             related(x) == IF x \in DOMAIN RELATED_CATEGORIES
                           THEN RELATED_CATEGORIES[x] ELSE {}
         IN  IF t = c THEN SCALE
             ELSE IF c \in related(t) \/ t \in related(c) THEN SCALE \div 2 ELSE 0

calculate_category_score(target_cat, candidate_cat) ==
    IF FalsyStr(target_cat) \/ FalsyStr(candidate_cat) THEN SCALE \div 2
    ELSE LET t == Lower(target_cat)
             c == Lower(candidate_cat)
             related == IF t \in DOMAIN RELATED_CATEGORIES
                        THEN RELATED_CATEGORIES[t] ELSE {}
         IN  IF t = c THEN SCALE
             ELSE IF c \in related THEN SCALE \div 2 ELSE 0

calculate_price_score_full_tolerance(target_price, candidate_price) ==
    IF target_price \in {None, 0} \/ candidate_price \in {None, 0} THEN SCALE \div 2
    ELSE Max(0, SCALE - (Abs(target_price - candidate_price) * SCALE)
                            \div Max(target_price, 1))

calculate_price_score_unclamped(target_price, candidate_price) ==
    IF target_price \in {None, 0} \/ candidate_price \in {None, 0} THEN SCALE \div 2
    ELSE SCALE - (2 * Abs(target_price - candidate_price) * SCALE)
                     \div Max(target_price, 1)

\* `not price`: None and 0 are falsy.  max(target_price, 0.01) is one cent.
calculate_price_score(target_price, candidate_price) ==
    IF target_price \in {None, 0} \/ candidate_price \in {None, 0} THEN SCALE \div 2
    ELSE Max(0, SCALE - (2 * Abs(target_price - candidate_price) * SCALE)
                            \div Max(target_price, 1))

\* max_distance = 10 km = 100 tenths of a kilometre
calculate_distance_score_zero_is_missing(distance_km) ==
    IF distance_km \in {None, 0} THEN SCALE \div 2
    ELSE Max(0, SCALE - (distance_km * SCALE) \div 100)

calculate_distance_score(distance_km) ==
    IF distance_km = None THEN SCALE \div 2
    ELSE Max(0, SCALE - (distance_km * SCALE) \div 100)

calculate_freshness_score_missing_is_zero(target_days, candidate_days) ==
    IF target_days = None \/ candidate_days = None THEN 0
    ELSE Max(0, SCALE - (Abs(target_days - candidate_days) * SCALE) \div 7)

calculate_freshness_score(target_days, candidate_days) ==
    IF target_days = None \/ candidate_days = None THEN SCALE \div 2
    ELSE Max(0, SCALE - (Abs(target_days - candidate_days) * SCALE) \div 7)

(***************************************************************************)
(* What the sub-score functions raise.  Python checks no types: .lower()   *)
(* of a number raises AttributeError, arithmetic on a string TypeError.    *)
(* The checks for missing data come first, so a wrong-typed value next to  *)
(* a missing one raises nothing.                                           *)
(***************************************************************************)
calculate_category_score_exception(target_cat, candidate_cat) ==
    IF FalsyStr(target_cat) \/ FalsyStr(candidate_cat) THEN NoException
    ELSE IF NotAString \in {target_cat, candidate_cat} THEN "AttributeError"
    ELSE NoException

calculate_price_score_exception(target_price, candidate_price) ==
    IF target_price \in {None, 0} \/ candidate_price \in {None, 0} THEN NoException
    ELSE IF NotANumber \in {target_price, candidate_price} THEN "TypeError"
    ELSE NoException

calculate_distance_score_exception(distance_km) ==
    IF distance_km = NotANumber THEN "TypeError" ELSE NoException

calculate_freshness_score_exception(target_days, candidate_days) ==
    IF target_days = None \/ candidate_days = None THEN NoException
    ELSE IF NotANumber \in {target_days, candidate_days} THEN "TypeError"
    ELSE NoException

(***************************************************************************)
(* calculate_text_similarity: TfidfVectorizer(stop_words='english') and    *)
(* cosine_similarity.  idf(t) = ln((1 + n) / (1 + df(t))) + 1, the weight  *)
(* of term t in a document is tf * idf, and the similarity of two          *)
(* documents is the cosine of their weight vectors (0 for a document with  *)
(* no term left).  Logarithm and square root are integer approximations;   *)
(* identical documents score exactly 1 and disjoint ones exactly 0.        *)
(***************************************************************************)
StopWords == {"the", "from", "and"}

RECURSIVE LnMilli(_, _)
\* 1000 * ln(a / b) for a >= b >= 1
LnMilli(a, b) ==
    IF a >= 2 * b THEN 693 + LnMilli(a, 2 * b)
    ELSE LET z == ((a - b) * 1000) \div (a + b)
             z3 == (z * z * z) \div 1000000
             z5 == (z3 * z * z) \div 1000000
         IN  2 * z + (2 * z3) \div 3 + (2 * z5) \div 5

RECURSIVE ISqrtBetween(_, _, _)
ISqrtBetween(x, lo, hi) ==
    IF lo >= hi THEN lo
    ELSE LET mid == (lo + hi + 1) \div 2
         IN  IF mid * mid <= x THEN ISqrtBetween(x, mid, hi)
             ELSE ISqrtBetween(x, lo, mid - 1)

\* floor of the square root, for 0 <= x < 2^30
ISqrt(x) == ISqrtBetween(x, 0, 32767)

RECURSIVE SumOver(_, _)
SumOver(S, f) ==
    IF S = {} THEN 0
    ELSE LET x == CHOOSE y \in S : TRUE
         IN  f[x] + SumOver(S \ {x}, f)

Terms(doc) == {doc[k] : k \in 1..Len(doc)} \ StopWords

Tf(doc, t) == Cardinality({k \in 1..Len(doc) : doc[k] = t})

Df(docs, t) == Cardinality({k \in 1..Len(docs) : t \in Terms(docs[k])})

\* in hundredths
Idf(n, df) == (1000 + LnMilli(1 + n, 1 + df) + 5) \div 10

Dot(docs, a, b) ==
    LET common == Terms(a) \cap Terms(b)
        w == [t \in common |->
                LET idf == Idf(Len(docs), Df(docs, t))
                IN  Tf(a, t) * Tf(b, t) * idf * idf]
    IN  SumOver(common, w)

\* in 1/SCALE
Cosine(docs, a, b) ==
    LET num == Dot(docs, a, b)
    IN  IF num = 0 THEN 0
        ELSE ISqrt(((num * 1000) \div Dot(docs, a, a))
                   * ((num * 1000) \div Dot(docs, b, b))) * (SCALE \div 1000)

calculate_text_similarity_column_before(texts, i, j) ==
    IF Len(texts) < 2 THEN SCALE
    ELSE LET processed_texts ==
                 [k \in 1..Len(texts) |->
                     IF texts[k] = <<>> THEN <<"unknown">> ELSE texts[k]]
             vocabulary == UNION {Terms(processed_texts[k]) : k \in 1..Len(texts)}
         IN  IF vocabulary = {} THEN SCALE \div 2
             ELSE Cosine(processed_texts, processed_texts[i + 1], processed_texts[j])

\* similarity_matrix[i, j] of calculate_text_similarity(texts), 0-based
calculate_text_similarity(texts, i, j) ==
    IF Len(texts) < 2 THEN SCALE
    ELSE LET processed_texts ==
                 [k \in 1..Len(texts) |->
                     IF texts[k] = <<>> THEN <<"unknown">> ELSE texts[k]]
             vocabulary == UNION {Terms(processed_texts[k]) : k \in 1..Len(texts)}
         IN  IF vocabulary = {} THEN SCALE \div 2
             ELSE Cosine(processed_texts, processed_texts[i + 1], processed_texts[j + 1])

\* f"{title} {description}"
Document(listing) == listing.title \o listing.description

SkipCandidateSameIdOnly(target, candidate) == candidate.id = target.id

\* lines 265-270: same listing, or same seller
SkipCandidate(target, candidate) ==
    \/ candidate.id = target.id
    \/ candidate.sellerId = target.sellerId

WeightedTotalEqualWeights(category_score, text_score, price_score, distance_score, freshness_score) ==
    20 * (category_score + text_score + price_score + distance_score
          + freshness_score)

\* in 1/(100 * SCALE)
WeightedTotal(category_score, text_score, price_score, distance_score, freshness_score) ==
    WEIGHTS.category * category_score
    + WEIGHTS.text * text_score
    + WEIGHTS.price * price_score
    + WEIGHTS.distance * distance_score
    + WEIGHTS.freshness * freshness_score

PassesThresholdBad(total_score) == total_score >= 40 * SCALE

\* total_score >= 0.5
PassesThreshold(total_score) == total_score >= 50 * SCALE

\* The first exception the scoring of one candidate raises (lines 272-288:
\* category, price, distance, freshness in this order; the f-strings of the
\* text document accept any value).
ScoreCandidateException(target, candidate) ==
    LET category == calculate_category_score_exception(target.category,
                                                       candidate.category)
        price == calculate_price_score_exception(target.price, candidate.price)
        distance == calculate_distance_score_exception(candidate.distance_km)
        freshness == calculate_freshness_score_exception(target.days_until_expiry,
                                                         candidate.days_until_expiry)
    IN  IF category # NoException THEN category
        ELSE IF price # NoException THEN price
        ELSE IF distance # NoException THEN distance
        ELSE freshness

\* The scores of candidates[i]; pos is the candidate's index in the input.
\* A candidate whose scoring raises has no scores.
ScoreCandidate(target, candidates, all_texts, i) ==
    LET candidate == candidates[i]
        category_score == calculate_category_score(target.category, candidate.category)
        text_score == calculate_text_similarity(all_texts, 0, i)
        price_score == calculate_price_score(target.price, candidate.price)
        distance_score == calculate_distance_score(candidate.distance_km)
        freshness_score == calculate_freshness_score(target.days_until_expiry,
                                                     candidate.days_until_expiry)
    IN  IF ScoreCandidateException(target, candidate) # NoException
        THEN [pos |-> i, skipped |-> SkipCandidate(target, candidate),
              total_score |-> 0, match_factors |-> [none |-> TRUE]]
        ELSE
        [pos |-> i,
         skipped |-> SkipCandidate(target, candidate),
         total_score |-> WeightedTotal(category_score, text_score, price_score,
                                       distance_score, freshness_score),
         match_factors |->
             [category |-> RoundHalfEven(category_score, SCALE \div 100),
              text |-> RoundHalfEven(text_score, SCALE \div 100),
              price |-> RoundHalfEven(price_score, SCALE \div 100),
              distance |-> RoundHalfEven(distance_score, SCALE \div 100),
              freshness |-> RoundHalfEven(freshness_score, SCALE \div 100)]]

MakeResultScoredFieldsOnly(candidate, scored) ==
    [pos |-> scored.pos,
     id |-> candidate.id,
     sellerId |-> candidate.sellerId,
     title |-> candidate.title,
     description |-> candidate.description,
     category |-> candidate.category,
     price |-> candidate.price,
     originalPrice |-> None,
     quantity |-> None,
     unit |-> NoneStr,
     expiryDate |-> NoneStr,
     pickupLocation |-> NoneStr,
     images |-> NoneStr,
     status |-> NoneStr,
     createdAt |-> NoneStr,
     seller |-> NoneStr,
     similarity_score |-> RoundHalfEven(scored.total_score, SCALE \div 10),
     match_factors |-> scored.match_factors]

\* The result dict built for a kept candidate; similarity_score in thousandths.
MakeResult(candidate, scored) ==
    [pos |-> scored.pos,
     id |-> candidate.id,
     sellerId |-> candidate.sellerId,
     title |-> candidate.title,
     description |-> candidate.description,
     category |-> candidate.category,
     price |-> candidate.price,
     originalPrice |-> candidate.originalPrice,
     quantity |-> candidate.quantity,
     unit |-> candidate.unit,
     expiryDate |-> candidate.expiryDate,
     pickupLocation |-> candidate.pickupLocation,
     images |-> candidate.images,
     status |-> candidate.status,
     createdAt |-> candidate.createdAt,
     seller |-> candidate.seller,
     similarity_score |-> RoundHalfEven(scored.total_score, SCALE \div 10),
     match_factors |-> scored.match_factors]

Kept(scored) == ~scored.skipped /\ PassesThreshold(scored.total_score)

RemoveAt(s, i) == SubSeq(s, 1, i - 1) \o SubSeq(s, i + 1, Len(s))

RECURSIVE SortAscending(_)
SortAscending(results) ==
    IF results = <<>> THEN <<>>
    ELSE LET i == CHOOSE k \in 1..Len(results) :
                    /\ \A j \in 1..Len(results) :
                          results[j].similarity_score >= results[k].similarity_score
                    /\ \A j \in 1..(k - 1) :
                          results[j].similarity_score > results[k].similarity_score
         IN  <<results[i]>> \o SortAscending(RemoveAt(results, i))

RECURSIVE SortByScoreDescending(_)
\* results.sort(key=similarity_score, reverse=True): stable, highest first
SortByScoreDescending(results) ==
    IF results = <<>> THEN <<>>
    ELSE LET i == CHOOSE k \in 1..Len(results) :
                    /\ \A j \in 1..Len(results) :
                          results[j].similarity_score <= results[k].similarity_score
                    /\ \A j \in 1..(k - 1) :
                          results[j].similarity_score < results[k].similarity_score
         IN  <<results[i]>> \o SortByScoreDescending(RemoveAt(results, i))

SliceOneMore(results, limit) == SubSeq(results, 1, Min(limit + 1, Len(results)))

\* results[:limit]; a negative limit drops that many from the end
Slice(results, limit) ==
    IF limit >= 0 THEN SubSeq(results, 1, Min(limit, Len(results)))
    ELSE SubSeq(results, 1, Max(0, Len(results) + limit))

\* The exception find_similar raises: that of the first candidate, in input
\* order, that is scored (not skipped) and whose scoring raises.
find_similar_exception(target, candidates) ==
    LET raising == {i \in 1..Len(candidates) :
                       /\ ~SkipCandidate(target, candidates[i])
                       /\ ScoreCandidateException(target, candidates[i]) # NoException}
    IN  IF raising = {} THEN NoException
        ELSE ScoreCandidateException(
                 target, candidates[CHOOSE i \in raising : \A j \in raising : i <= j])

\* The caller's target and candidates objects as find_similar leaves them: the
\* function reads them with dict.get and writes to neither.
find_similar_arguments(target, candidates) ==
    [target |-> target, candidates |-> candidates]

\* The list find_similar returns when nothing is raised.
find_similar(target, candidates, limit) ==
    IF candidates = <<>> THEN <<>>
    ELSE LET all_texts ==
                 <<Document(target)>>
                 \o [i \in 1..Len(candidates) |-> Document(candidates[i])]
             scored == [i \in 1..Len(candidates) |->
                           ScoreCandidate(target, candidates, all_texts, i)]
             kept == SelectSeq(scored, Kept)
             results == [k \in 1..Len(kept) |->
                            MakeResult(candidates[kept[k].pos], kept[k])]
         IN  Slice(SortByScoreDescending(results), limit)

(***************************************************************************)
(* Inputs of find_similar                                                  *)
(***************************************************************************)
\* Display fields the matcher never scores on.  Structured values (the images
\* list, the seller object, the pickup location) are opaque to the engine and
\* stand as their JSON text; a listing may come without any of them.
HasDisplayFields(id) == id # None /\ id % 6 # 0

Listing(id, sellerId, title, description, category, price, distance_km, days) ==
    LET number(n) == IF HasDisplayFields(id) THEN n ELSE None
        string(x) == IF HasDisplayFields(id) THEN x ELSE NoneStr
    IN  [id |-> id, sellerId |-> sellerId, title |-> title,
         description |-> description,
         category |-> category, price |-> price, distance_km |-> distance_km,
         days_until_expiry |-> days,
         originalPrice |-> number(100 * id + 99),
         quantity |-> number(id),
         unit |-> string("kg"),
         expiryDate |-> string("2026-02-01T00:00:00Z"),
         pickupLocation |-> string("Block 12, Main Street"),
         images |-> string("['a.jpg', 'b.jpg']"),
         status |-> string("active"),
         createdAt |-> string("2026-01-15T08:30:00Z"),
         seller |-> string("{'id': sellerId, 'name': 'Seller'}")]

Targets ==
    {Listing(1, 1, <<"fresh", "apples">>, <<"organic", "apples">>,
             "produce", 500, None, 5),
     Listing(1, 1, <<>>, <<>>, NoneStr, None, None, None)}

CandidatePool ==
    {Listing(2, 2, <<"red", "apples">>, <<"sweet", "apples">>, "produce", 450, 15, 4),
     Listing(3, 3, <<"the", "red", "apples">>, <<"sweet", "apples">>,
             "PRODUCE", 450, 15, 4),
     Listing(4, 1, <<"fresh", "apples">>, <<"organic", "apples">>, "produce", 500, 0, 5),
     Listing(1, 5, <<"fresh", "apples">>, <<>>, "produce", 500, 0, 5),
     Listing(6, 6, <<"frozen", "pizza">>, <<>>, "produce", 500, 100, 12),
     Listing(7, 7, <<"frozen", "pizza">>, <<>>, "produce", 510, 100, 13),
     Listing(8, 8, <<>>, <<>>, NoneStr, None, None, None)}

MaxCands == 3

CandidateLists == UNION {[1..n -> CandidatePool] : n \in 0..MaxCands}

MaxLimit == 3

DefaultLimit == 6

Limits == (0 - 1)..MaxLimit \cup {DefaultLimit}

\* More listings than any admissible MAX_RESULT_LIMIT (test_app.py bounds it by
\* 100), all from other sellers and all similar to BulkTarget.
MaxResultLimitCeiling == 100

BulkSize == MaxResultLimitCeiling + 1

BulkTarget == Listing(0, 0, <<"test">>, <<>>, "produce", 500, None, None)

BulkCandidates ==
    [i \in 1..BulkSize |-> Listing(i, i, <<"item">>, <<>>, "produce", 500, None, None)]

BulkLimits == {10, 1000}

\* Arguments of the direct calls of the sub-score functions
ScoreCategories ==
    DOMAIN RELATED_CATEGORIES
    \cup {"seafood", "xyz_unknown", "Produce", "PRODUCE", "Dairy", "", NoneStr}

MaxScorePrice == 12

ScorePrices ==
    {None, 0, 0 - 500} \cup 1..MaxScorePrice \cup {100, 150, 500, 750, 1000, 1500}

MaxScoreDistance == 120

ScoreDistances == {None} \cup 0..MaxScoreDistance \cup {250, 10000}

\* Degenerate data: fields of the wrong type, a negative price, a pickup point
\* beyond max_distance, an item expiring today and one far in the future.
EdgeTargets ==
    Targets
    \cup {Listing(1, 1, <<"fresh", "apples">>, <<"organic", "apples">>,
                  "produce", 0 - 500, None, 0),
          Listing(1, 1, <<"fresh", "apples">>, <<>>,
                  NotAString, NotANumber, None, NotANumber)}

EdgePool ==
    {Listing(2, 2, <<"red", "apples">>, <<"sweet", "apples">>, "produce", 450, 15, 4),
     Listing(9, 9, <<"red", "apples">>, <<>>, NotAString, 450, 15, 4),
     Listing(10, 10, <<"red", "apples">>, <<>>, "produce", NotANumber, 15, 4),
     Listing(11, 11, <<"red", "apples">>, <<>>, "produce", 450, NotANumber, 4),
     Listing(12, 12, <<"red", "apples">>, <<>>, "produce", 450, 15, NotANumber),
     Listing(13, 1, <<"red", "apples">>, <<>>,
             NotAString, NotANumber, NotANumber, NotANumber),
     Listing(14, 14, <<"fresh", "apples">>, <<"organic", "apples">>,
             "produce", 0 - 500, 250, 0),
     Listing(15, 15, <<"fresh", "apples">>, <<"organic", "apples">>,
             "produce", 500, 0, 40)}

MaxEdgeCands == 2

EdgeCandidateLists == UNION {[1..n -> EdgePool] : n \in 1..MaxEdgeCands}

(***************************************************************************)
(* SellerNotificationEngine.analyze_inventory                              *)
(* A product is [product_id, product_name, expiry_date]; a notification    *)
(* carries pos, the index in the input of the product it is about.         *)
(***************************************************************************)
priority_order == [high |-> 0, medium |-> 1, low |-> 2]

NotificationLevelExclusive(urgency) ==
    IF urgency > 90 THEN "high"
    ELSE IF urgency > 70 THEN "medium"
    ELSE IF urgency > 50 THEN "low"
    ELSE "none"

\* the if / elif chain over the urgency (in hundredths)
NotificationLevel(urgency) ==
    IF urgency >= 90 THEN "high"
    ELSE IF urgency >= 70 THEN "medium"
    ELSE IF urgency >= 50 THEN "low"
    ELSE "none"

\* The dict appended for a product of the given level.
Notification(product, pos, level) ==
    [pos |-> pos,
     type |-> CASE level = "high" -> "critical_expiry"
                [] level = "medium" -> "expiring_soon"
                [] OTHER -> "plan_ahead",
     priority |-> level,
     product_id |-> product.product_id,
     product_name |-> product.product_name,
     message |-> <<product.product_name,
                   CASE level = "high"
                          -> "expires today/tomorrow! List now at 50%+ discount."
                     [] level = "medium"
                          -> "expires in 2-3 days. Consider listing on marketplace."
                     [] OTHER -> "expires within a week. Plan to use or sell.">>,
     action |-> CASE level = "high" -> "list_urgent"
                  [] level = "medium" -> "list_soon"
                  [] OTHER -> "plan",
     suggested_discount |-> CASE level = "high" -> 50
                              [] level = "medium" -> 30
                              [] OTHER -> 15]

RECURSIVE CollectNotifications(_, _)
\* The notifications list after the loop has handled products[i..]
CollectNotifications(products, i) ==
    IF i > Len(products) THEN <<>>
    ELSE LET level == NotificationLevel(
                          ExpiryUrgencyScorer_calculate(products[i].expiry_date).value)
         IN  (IF level = "none" THEN <<>>
              ELSE <<Notification(products[i], i, level)>>)
             \o CollectNotifications(products, i + 1)

RECURSIVE SortByPriority(_)
\* notifications.sort(key=priority_order): stable, smallest key first
SortByPriority(notifications) ==
    IF notifications = <<>> THEN <<>>
    ELSE LET key(k) == priority_order[notifications[k].priority]
             i == CHOOSE k \in 1..Len(notifications) :
                    /\ \A j \in 1..Len(notifications) : key(j) >= key(k)
                    /\ \A j \in 1..(k - 1) : key(j) > key(k)
         IN  <<notifications[i]>> \o SortByPriority(RemoveAt(notifications, i))

\* The exception analyze_inventory raises: that of the urgency scorer for the
\* first product whose expiry date cannot be parsed.
analyze_inventory_exception(products) ==
    IF \E i \in 1..Len(products) :
           Raised(ExpiryUrgencyScorer_calculate(products[i].expiry_date))
    THEN "ValueError" ELSE NoException

\* The list analyze_inventory returns when nothing is raised.
analyze_inventory(products) == SortByPriority(CollectNotifications(products, 1))

\* Expiry dates of the products: none, unparseable, and one in each urgency
\* step from already expired to two weeks ahead.
InventoryDates ==
    {[kind |-> "none", hours |-> 0], [kind |-> "invalid", hours |-> 0]}
    \cup {[kind |-> "iso", hours |-> HoursPerDay * d] : d \in {0 - 1, 1, 3, 7, 14}}

MaxProducts == 4

\* The inventory of the products with the given expiry dates.
Inventory(dates) ==
    [i \in 1..Len(dates) |->
        [product_id |-> 100 + i, product_name |-> "Milk", expiry_date |-> dates[i]]]

(***************************************************************************)
(* Request bodies of the two POST handlers.  keys is the set of keys the   *)
(* JSON body holds; data.get(k) of a key that is not there is None (or     *)
(* the default the handler names), and the field of the request record     *)
(* then holds that value.                                                  *)
(***************************************************************************)
SimilarBodyKeys == SUBSET {"target", "candidates", "limit"}

NoTarget == Listing(None, None, <<>>, <<>>, NoneStr, None, None, None)

ApiCandidateLists == CandidateLists \cup EdgeCandidateLists

ApiLimits == {1}

PriceBodyKeys == SUBSET {"original_price", "expiry_date", "category"}

ApiPrices == OriginalPrices \cup {NotANumber}

\* jsonify({...}) of get_similar_products; threshold in hundredths
SimilarProductsBody(similar) ==
    [similar_products |-> similar,
     count |-> Len(similar),
     threshold |-> 50,
     generated_at |-> "datetime.utcnow().isoformat()"]

\* A handler that raises is answered by the framework with status 500.
InternalServerError(exception) == [status |-> 500, body |-> [exception |-> exception]]

BadRequest(message) == [status |-> 400, body |-> [error |-> message]]

Ok(body) == [status |-> 200, body |-> body]

\* get_similar_products() for the request body data
get_similar_products_response(data) ==
    IF \/ "target" \notin data.keys
       \/ "candidates" \notin data.keys
       \/ data.candidates = <<>>
    THEN BadRequest("target and candidates are required")
    ELSE LET exception == find_similar_exception(data.target, data.candidates)
         IN  IF exception # NoException THEN InternalServerError(exception)
             ELSE Ok(SimilarProductsBody(
                         find_similar(data.target, data.candidates, data.limit)))

\* get_price_recommendation() for the request body data
get_price_recommendation_response(data) ==
    IF data.original_price \in {None, 0} THEN BadRequest("original_price is required")
    ELSE IF data.original_price = NotANumber THEN InternalServerError("ValueError")
    ELSE LET recommendation ==
                 PriceRecommender_calculate(data.original_price, data.expiry_date,
                                            data.category)
         IN  IF Raised(recommendation)
             THEN InternalServerError(recommendation.exception)
             ELSE Ok(recommendation)

(***************************************************************************)
(* Model adapter: is_ml_available(), predict(), reload_model().            *)
(* The artifacts of a trained model are several objects (model, scaler)    *)
(* that only work together when they come from the same training run.      *)
(***************************************************************************)
MaxVersion == 2

Requests == {"request_1", "request_2"}

\* The complete artifacts of training run v; v = 0: nothing loaded.
Artifacts(v) == [model |-> v, scaler |-> v]

is_ml_available(artifacts) == artifacts.model > 0 /\ artifacts.scaler > 0

SwapModelOnly(current, staged) == [current EXCEPT !.model = staged.model]

\* reload replaces the reference to the loaded artifacts in one step
Swap(current, staged) == staged

NoReload == [pc |-> "idle", staged |-> Artifacts(0), before |-> Artifacts(0),
             result |-> FALSE]

NoPredict == [pc |-> "idle", seen |-> Artifacts(0), source |-> "none"]

AdapterInit ==
    /\ models_dir = 0
    /\ loaded = Artifacts(0)
    /\ reload_call = NoReload
    /\ predict_calls = [r \in Requests |-> NoPredict]

\* A training run stores the artifacts of a new version.
Train ==
    /\ models_dir < MaxVersion
    /\ models_dir' = models_dir + 1
    /\ UNCHANGED <<loaded, reload_call, predict_calls, op, request, response>>

\* reload_model() with no artifacts in storage: returns False
ReloadNoArtifacts ==
    /\ reload_call.pc = "idle"
    /\ models_dir = 0
    /\ reload_call' = [pc |-> "returned", staged |-> Artifacts(0),
                       before |-> loaded, result |-> FALSE]
    /\ UNCHANGED <<models_dir, loaded, predict_calls, op, request, response>>

\* reload_model(): the artifacts in storage are read into new objects
ReloadLoad ==
    /\ reload_call.pc = "idle"
    /\ models_dir > 0
    /\ reload_call' = [pc |-> "loaded", staged |-> Artifacts(models_dir),
                       before |-> loaded, result |-> FALSE]
    /\ UNCHANGED <<models_dir, loaded, predict_calls, op, request, response>>

\* reload_model(): the new objects replace the loaded ones; returns True
ReloadSwap ==
    /\ reload_call.pc = "loaded"
    /\ loaded' = Swap(loaded, reload_call.staged)
    /\ reload_call' = [reload_call EXCEPT !.pc = "returned", !.result = TRUE]
    /\ UNCHANGED <<models_dir, predict_calls, op, request, response>>

ReloadReturn ==
    /\ reload_call.pc = "returned"
    /\ reload_call' = NoReload
    /\ UNCHANGED <<models_dir, loaded, predict_calls, op, request, response>>

\* predict(): the request takes the loaded artifacts
PredictStart(r) ==
    /\ predict_calls[r].pc = "idle"
    /\ predict_calls' = [predict_calls EXCEPT ![r] =
                             [pc |-> "running", seen |-> loaded, source |-> "none"]]
    /\ UNCHANGED <<models_dir, loaded, reload_call, op, request, response>>

\* predict(): the result is tagged 'ml_model', or 'error' without a model
PredictFinish(r) ==
    /\ predict_calls[r].pc = "running"
    /\ predict_calls' = [predict_calls EXCEPT ![r] =
                             [pc |-> "returned",
                              seen |-> predict_calls[r].seen,
                              source |-> IF is_ml_available(predict_calls[r].seen)
                                         THEN "ml_model" ELSE "error"]]
    /\ UNCHANGED <<models_dir, loaded, reload_call, op, request, response>>

PredictReturn(r) ==
    /\ predict_calls[r].pc = "returned"
    /\ predict_calls' = [predict_calls EXCEPT ![r] = NoPredict]
    /\ UNCHANGED <<models_dir, loaded, reload_call, op, request, response>>

Predict == \E r \in Requests : PredictStart(r) \/ PredictFinish(r) \/ PredictReturn(r)

(***************************************************************************)
(* Security report generator (.github/scripts/generate-security-report.py) *)
(*                                                                         *)
(* The reports directory holds, for each scanner, no report, a report the  *)
(* parser cannot read, or a report with entries; an entry is given by the  *)
(* severity label the scanner wrote.  A finding is [tool, severity], a     *)
(* scan result [tool_name, category, status, findings].                    *)
(***************************************************************************)
ScannerTools ==
    {"Semgrep", "Bandit", "Trufflehog", "pip-audit", "npm audit", "Checkov",
     "License Check", "Trivy (App)", "Trivy (Recommendation)", "ZAP Baseline",
     "ZAP API"}

CategoryOf(tool) ==
    CASE tool \in {"Semgrep", "Bandit"} -> "SAST"
      [] tool = "Trufflehog" -> "Secrets"
      [] tool \in {"pip-audit", "npm audit"} -> "SCA"
      [] tool = "Checkov" -> "IaC"
      [] tool = "License Check" -> "Compliance"
      [] tool \in {"Trivy (App)", "Trivy (Recommendation)"} -> "Container"
      [] OTHER -> "DAST"

\* The labels an entry of the tool's report can carry.
ReportLabels(tool) ==
    CASE tool = "Semgrep" -> {"ERROR", "WARNING", "INFO", ""}
      [] tool = "Bandit" -> {"HIGH", "MEDIUM", "LOW", "UNDEFINED"}
      [] tool = "Trufflehog" -> {"DetectorName"}
      [] tool = "pip-audit" -> {"vuln"}
      [] tool = "npm audit" -> {"critical", "high", "moderate", "low"}
      [] tool = "Checkov" -> {"failed_check"}
      [] tool = "License Check" -> {"GPL"}
      [] tool \in {"Trivy (App)", "Trivy (Recommendation)"}
            -> {"CRITICAL", "HIGH", "LOW", ""}
      [] OTHER -> {"3", "2", "1", "0"}

\* The severity the tool's parser gives a finding for an entry with the label.
SeverityOf(tool, label) ==
    CASE tool = "Semgrep" ->
            (CASE label = "ERROR" -> "high" [] label = "WARNING" -> "medium"
               [] label = "INFO" -> "low" [] OTHER -> "medium")
      [] tool = "Bandit" ->
            (CASE label = "HIGH" -> "high" [] label = "LOW" -> "low"
               [] label = "CRITICAL" -> "critical" [] OTHER -> "medium")
      [] tool = "Trufflehog" -> "critical"
      [] tool = "pip-audit" -> "high"
      [] tool = "npm audit" ->
            (CASE label = "critical" -> "critical" [] label = "high" -> "high"
               [] label = "low" -> "low" [] OTHER -> "medium")
      [] tool \in {"Checkov", "License Check"} -> "medium"
      [] tool \in {"Trivy (App)", "Trivy (Recommendation)"} ->
            (CASE label = "CRITICAL" -> "critical" [] label = "HIGH" -> "high"
               [] label = "LOW" -> "low" [] OTHER -> "medium")
      [] OTHER ->
            (CASE label = "3" -> "high" [] label = "2" -> "medium"
               [] label = "1" -> "low" [] OTHER -> "info")

\* The parsers that answer an unreadable report with status 'error'; the
\* others read it as a report without entries.
ErrorWhenUnreadable(tool) ==
    tool \in {"Semgrep", "Bandit", "pip-audit", "Checkov", "ZAP Baseline", "ZAP API"}

Finding(tool, severity) == [tool |-> tool, severity |-> severity]

ScanResult(tool_name, category, status, findings) ==
    [tool_name |-> tool_name, category |-> category, status |-> status,
     findings |-> findings]

HasSeverity(findings, severities) ==
    \E k \in 1..Len(findings) : findings[k].severity \in severities

determine_status(findings) ==
    IF findings = <<>> THEN "pass"
    ELSE IF HasSeverity(findings, {"critical", "high"}) THEN "fail"
    ELSE IF HasSeverity(findings, {"medium"}) THEN "warn"
    ELSE "warn"

\* parse_semgrep, parse_bandit, parse_trufflehog, parse_pip_audit,
\* parse_js_audit, parse_checkov, parse_license, parse_trivy, parse_zap
parse_scanner(tool, report) ==
    IF report.kind = "missing"
    THEN ScanResult(tool, CategoryOf(tool), "skipped", <<>>)
    ELSE IF report.kind = "unreadable" /\ ErrorWhenUnreadable(tool)
    THEN ScanResult(tool, CategoryOf(tool), "error", <<>>)
    ELSE LET labels == IF report.kind = "unreadable" THEN <<>> ELSE report.labels
             findings == [k \in 1..Len(labels) |->
                             Finding(tool, SeverityOf(tool, labels[k]))]
         IN  ScanResult(tool, CategoryOf(tool), determine_status(findings), findings)

\* parse_sbom, parse_container_sbom: the directory is there or not
parse_sbom(tool_name, exists) ==
    ScanResult(tool_name, "Inventory", IF exists THEN "pass" ELSE "skipped", <<>>)

\* parse_e2e_results.  Of a readable report: passed and failed are the
\* numbers before the words 'passed' and 'failed' (0 when the text has no
\* such phrase), failed_tests the number of elements marked as failed.
parse_e2e_results(report) ==
    IF report.kind = "missing"
    THEN ScanResult("E2E Tests", "Functional", "skipped", <<>>)
    ELSE IF report.kind = "unreadable"
    THEN ScanResult("E2E Tests", "Functional", "error", <<>>)
    ELSE LET named == [k \in 1..Min(report.failed_tests, 20) |->
                          Finding("E2E-Tests", "high")]
             findings == IF report.failed > 0 /\ named = <<>>
                         THEN [k \in 1..Min(report.failed, 10) |->
                                  Finding("E2E-Tests", "high")]
                         ELSE named
             total == report.passed + report.failed
             status == IF total = 0 THEN "skipped"
                       ELSE IF report.failed = 0 THEN "pass"
                       ELSE "fail"
         IN  ScanResult("E2E Tests", "Functional", status, findings)

\* parse_unit_test_coverage: the scan result for a frontend line coverage of
\* pct percent (the only component read, so the average is pct)
parse_unit_test_coverage(pct) ==
    ScanResult("Unit Tests", "Testing", IF pct >= 60 THEN "pass" ELSE "warn",
               IF pct < 50 THEN <<Finding("Unit-Tests", "medium")>> ELSE <<>>)

collect_all(reports_dir) ==
    <<parse_scanner("Semgrep", reports_dir.scanners["Semgrep"]),
      parse_scanner("Bandit", reports_dir.scanners["Bandit"]),
      parse_scanner("Trufflehog", reports_dir.scanners["Trufflehog"]),
      parse_scanner("pip-audit", reports_dir.scanners["pip-audit"]),
      parse_scanner("npm audit", reports_dir.scanners["npm audit"]),
      parse_scanner("Checkov", reports_dir.scanners["Checkov"]),
      parse_scanner("License Check", reports_dir.scanners["License Check"]),
      parse_sbom(IF reports_dir.sbom THEN "SBOM (Source)" ELSE "SBOM",
                 reports_dir.sbom),
      parse_scanner("Trivy (App)", reports_dir.scanners["Trivy (App)"]),
      parse_scanner("Trivy (Recommendation)",
                    reports_dir.scanners["Trivy (Recommendation)"]),
      parse_sbom("SBOM (Containers)", reports_dir.container_sbom),
      parse_scanner("ZAP Baseline", reports_dir.scanners["ZAP Baseline"]),
      parse_scanner("ZAP API", reports_dir.scanners["ZAP API"]),
      parse_e2e_results(reports_dir.e2e)>>
    \o (IF reports_dir.coverage = None THEN <<>>
        ELSE <<parse_unit_test_coverage(reports_dir.coverage)>>)

overall_status(results) ==
    IF \E k \in 1..Len(results) : results[k].status = "fail" THEN "fail"
    ELSE IF \E k \in 1..Len(results) : results[k].status = "warn" THEN "warn"
    ELSE "pass"

\* sum(r.<severity>_count for r in results)
SeverityCount(results, severity) ==
    SumOver(1..Len(results),
            [k \in 1..Len(results) |->
                Cardinality({j \in 1..Len(results[k].findings) :
                                results[k].findings[j].severity = severity})])

\* The risk level get_risk_assessment returns (first component).
get_risk_assessment(results) ==
    LET total_c == SeverityCount(results, "critical")
        total_h == SeverityCount(results, "high")
        total_m == SeverityCount(results, "medium")
    IN  IF total_c > 0 THEN "High Risk"
        ELSE IF total_h > 3 THEN "Elevated Risk"
        ELSE IF total_h > 0 THEN "Moderate Risk"
        ELSE IF total_m > 5 THEN "Low Risk"
        ELSE "Minimal Risk"

MaxFindings == 1

MissingReport == [kind |-> "missing", labels |-> <<>>]

ScannerReports(tool) ==
    {MissingReport, [kind |-> "unreadable", labels |-> <<>>]}
    \cup {[kind |-> "parsed", labels |-> labels] :
             labels \in UNION {[1..n -> ReportLabels(tool)] : n \in 0..MaxFindings}}

MaxFailed == 1

E2EReports ==
    {[kind |-> k, passed |-> 0, failed |-> 0, failed_tests |-> 0] :
        k \in {"missing", "unreadable"}}
    \cup {[kind |-> "parsed", passed |-> passed, failed |-> failed,
           failed_tests |-> failed_tests] :
             passed \in {0, 5}, failed \in 0..MaxFailed, failed_tests \in 0..MaxFailed}

\* frontend line coverage in percent; None: no coverage summary
Coverages == {None, 40, 80}

\* The reports directory in which one scanner has left the given report
\* (or none, for a missing report).
ReportsDir(tool, report, sbom, container_sbom, e2e, coverage) ==
    [scanners |-> [t \in ScannerTools |-> IF t = tool THEN report ELSE MissingReport],
     sbom |-> sbom, container_sbom |-> container_sbom, e2e |-> e2e,
     coverage |-> coverage]

(***************************************************************************)
(* State machine                                                           *)
(***************************************************************************)
Init ==
    /\ op = "idle"
    /\ request = [none |-> TRUE]
    /\ response = [none |-> TRUE]
    /\ AdapterInit

\* ExpiryUrgencyScorer.calculate(expiry_date)
CallUrgency ==
    /\ op = "idle"
    /\ \E expiry_date \in ExpiryDates :
          /\ request' = [expiry_date |-> expiry_date]
          /\ response' = ExpiryUrgencyScorer_calculate(expiry_date)
    /\ op' = "urgency"
    /\ UNCHANGED adapter_vars

\* PriceRecommender.calculate(original_price, expiry_date, category)
CallPrice ==
    /\ op = "idle"
    /\ \E original_price \in OriginalPrices, expiry_date \in ExpiryDates,
          category \in PriceCategories :
          /\ request' = [original_price |-> original_price,
                         expiry_date |-> expiry_date,
                         category |-> category]
          /\ response' = PriceRecommender_calculate(original_price, expiry_date,
                                                    category)
    /\ op' = "price"
    /\ UNCHANGED adapter_vars

\* PriceRecommender.calculate with a price that is no whole number of cents
\* (request.original_price in tenths of a cent)
CallPriceSubCent ==
    /\ op = "idle"
    /\ \E original_price \in SubCentPrices, expiry_date \in SubCentExpiryDates,
          category \in PriceCategories :
          /\ request' = [original_price |-> original_price,
                         expiry_date |-> expiry_date,
                         category |-> category]
          /\ response' = PriceRecommender_calculate_subcent(original_price,
                                                            expiry_date, category)
    /\ op' = "price_subcent"
    /\ UNCHANGED adapter_vars

\* SellerNotificationEngine.analyze_inventory(products)
CallAnalyzeInventory ==
    /\ op = "idle"
    /\ \E n \in 0..MaxProducts :
          \E dates \in [1..n -> InventoryDates] :
             LET products == Inventory(dates)
                 exception == analyze_inventory_exception(products)
             IN  /\ request' = [products |-> products]
                 /\ response' = IF exception # NoException
                                THEN [exception |-> exception]
                                ELSE analyze_inventory(products)
                 /\ op' = IF exception # NoException
                          THEN "analyze_inventory_raised"
                          ELSE "analyze_inventory"
    /\ UNCHANGED adapter_vars

\* main() of the report generator: the consolidated report for reports_dir.
\* The rendered HTML and markdown show status and risk_level.
GenerateSecurityReport ==
    /\ op = "idle"
    /\ \E tool \in ScannerTools :
          \E report \in ScannerReports(tool), sbom \in BOOLEAN,
             container_sbom \in BOOLEAN, e2e \in E2EReports, coverage \in Coverages :
             LET reports_dir == ReportsDir(tool, report, sbom, container_sbom, e2e,
                                           coverage)
                 results == collect_all(reports_dir)
             IN  /\ request' = [reports_dir |-> reports_dir]
                 /\ response' = [results |-> results,
                                 status |-> overall_status(results),
                                 risk_level |-> get_risk_assessment(results)]
    /\ op' = "generate_security_report"
    /\ UNCHANGED adapter_vars

\* op records whether the call returned ("find_similar") or raised.
FindSimilarCall(target, candidates, limit) ==
    LET exception == find_similar_exception(target, candidates)
    IN  /\ request' = [target |-> target, candidates |-> candidates, limit |-> limit,
                        after |-> find_similar_arguments(target, candidates)]
        /\ response' = IF exception # NoException THEN [exception |-> exception]
                       ELSE find_similar(target, candidates, limit)
        /\ op' = IF exception # NoException THEN "find_similar_raised"
                 ELSE "find_similar"
        /\ UNCHANGED adapter_vars

\* SimilarProductsMatcher.find_similar(target, candidates, limit)
CallFindSimilar ==
    /\ op = "idle"
    /\ \E target \in Targets, candidates \in CandidateLists, limit \in Limits :
          FindSimilarCall(target, candidates, limit)

\* find_similar on a pool larger than any admissible result cap
CallFindSimilarBulk ==
    /\ op = "idle"
    /\ \E limit \in BulkLimits : FindSimilarCall(BulkTarget, BulkCandidates, limit)

\* SimilarProductsMatcher.calculate_category_score(target_cat, candidate_cat)
CallCategoryScore ==
    /\ op = "idle"
    /\ \E target_cat \in ScoreCategories, candidate_cat \in ScoreCategories :
          /\ request' = [target_cat |-> target_cat, candidate_cat |-> candidate_cat]
          /\ response' = [value |-> calculate_category_score(target_cat,
                                                             candidate_cat)]
    /\ op' = "calculate_category_score"
    /\ UNCHANGED adapter_vars

\* SimilarProductsMatcher.calculate_price_score(target_price, candidate_price)
CallPriceScore ==
    /\ op = "idle"
    /\ \E target_price \in ScorePrices, candidate_price \in ScorePrices :
          /\ request' = [target_price |-> target_price,
                         candidate_price |-> candidate_price]
          /\ response' = [value |-> calculate_price_score(target_price,
                                                          candidate_price)]
    /\ op' = "calculate_price_score"
    /\ UNCHANGED adapter_vars

\* SimilarProductsMatcher.calculate_distance_score(distance_km)
CallDistanceScore ==
    /\ op = "idle"
    /\ \E distance_km \in ScoreDistances :
          /\ request' = [distance_km |-> distance_km]
          /\ response' = [value |-> calculate_distance_score(distance_km)]
    /\ op' = "calculate_distance_score"
    /\ UNCHANGED adapter_vars

\* find_similar on degenerate data
CallFindSimilarEdge ==
    /\ op = "idle"
    /\ \E target \in EdgeTargets, candidates \in EdgeCandidateLists :
          FindSimilarCall(target, candidates, DefaultLimit)

\* POST /api/v1/recommendations/similar
get_similar_products ==
    /\ op = "idle"
    /\ \E keys \in SimilarBodyKeys :
          \E target \in (IF "target" \in keys THEN Targets ELSE {NoTarget}),
             candidates \in (IF "candidates" \in keys THEN ApiCandidateLists
                             ELSE {<<>>}),
             limit \in (IF "limit" \in keys THEN ApiLimits ELSE {DefaultLimit}) :
             LET data == [keys |-> keys, target |-> target,
                          candidates |-> candidates, limit |-> limit]
             IN  /\ request' = data
                 /\ response' = get_similar_products_response(data)
    /\ op' = "get_similar_products"
    /\ UNCHANGED adapter_vars

\* POST /api/v1/recommendations/price
get_price_recommendation ==
    /\ op = "idle"
    /\ \E keys \in PriceBodyKeys :
          \E original_price \in (IF "original_price" \in keys THEN ApiPrices
                                 ELSE {None}),
             expiry_date \in (IF "expiry_date" \in keys THEN ExpiryDates
                              ELSE {[kind |-> "none", hours |-> 0]}),
             category \in (IF "category" \in keys THEN PriceCategories
                           ELSE {"other"}) :
             LET data == [keys |-> keys, original_price |-> original_price,
                          expiry_date |-> expiry_date, category |-> category]
             IN  /\ request' = data
                 /\ response' = get_price_recommendation_response(data)
    /\ op' = "get_price_recommendation"
    /\ UNCHANGED adapter_vars

\* The caller has consumed the response; the engine keeps nothing of a call.
Return ==
    /\ op # "idle"
    /\ op' = "idle"
    /\ request' = [none |-> TRUE]
    /\ response' = [none |-> TRUE]
    /\ UNCHANGED adapter_vars

Next ==
    \/ CallUrgency
    \/ CallPrice
    \/ CallPriceSubCent
    \/ CallFindSimilar
    \/ CallFindSimilarBulk
    \/ CallFindSimilarEdge
    \/ CallCategoryScore
    \/ CallPriceScore
    \/ CallDistanceScore
    \/ CallAnalyzeInventory
    \/ GenerateSecurityReport
    \/ get_similar_products
    \/ get_price_recommendation
    \/ Return

Spec == Init /\ [][Next]_vars

\* Reloads running concurrently with requests.
AdapterNext ==
    \/ Train
    \/ ReloadNoArtifacts
    \/ ReloadLoad
    \/ ReloadSwap
    \/ ReloadReturn
    \/ Predict

AdapterSpec == Init /\ [][AdapterNext]_vars

(***************************************************************************)
(* Properties                                                              *)
(***************************************************************************)
IsFind == op = "find_similar"

IsPrice == op = "price"

IsUrgency == op = "urgency"

MaxCandidatesCeiling == 1000

\* The scores find_similar computes for candidate i of the call being served.
ScoredAt(i) ==
    ScoreCandidate(request.target, request.candidates,
                   <<Document(request.target)>>
                   \o [k \in 1..Len(request.candidates) |->
                          Document(request.candidates[k])],
                   i)

\* C1: find_similar never returns a candidate whose id equals the target's id
\* or whose sellerId equals the target's sellerId, whatever its scores are.
C1_NeverReturnsSameIdOrSeller ==
    IsFind =>
        \A k \in 1..Len(response) :
            /\ response[k].id # request.target.id
            /\ response[k].sellerId # request.target.sellerId
            /\ request.candidates[response[k].pos].id # request.target.id
            /\ request.candidates[response[k].pos].sellerId # request.target.sellerId

\* A call that returns results and silently leaves out a same-seller candidate
\* and a same-id candidate whose scores both pass the threshold.
C1_Witness ==
    /\ IsFind
    /\ Len(response) > 0
    /\ \E i \in 1..Len(request.candidates) :
          /\ request.candidates[i].sellerId = request.target.sellerId
          /\ request.candidates[i].id # request.target.id
          /\ PassesThreshold(ScoredAt(i).total_score)
    /\ \E i \in 1..Len(request.candidates) :
          /\ request.candidates[i].id = request.target.id
          /\ request.candidates[i].sellerId # request.target.sellerId
          /\ PassesThreshold(ScoredAt(i).total_score)

\* C2: every result of find_similar has similarity_score >= 0.5, and no
\* candidate whose combined weighted score is below 0.5 is returned.
C2_ScoresAtLeastThreshold ==
    IsFind =>
        \A k \in 1..Len(response) :
            /\ response[k].similarity_score >= 500
            /\ ScoredAt(response[k].pos).total_score >= 50 * SCALE

\* A call with an eligible candidate just below the threshold, left out, and
\* another exactly at the threshold, returned.
C2_Witness ==
    /\ IsFind
    /\ \E i \in 1..Len(request.candidates) :
          /\ ~SkipCandidate(request.target, request.candidates[i])
          /\ ScoredAt(i).total_score < 50 * SCALE
          /\ ScoredAt(i).total_score >= 49 * SCALE
          /\ \A k \in 1..Len(response) : response[k].pos # i
    /\ \E k \in 1..Len(response) : response[k].similarity_score = 500

\* C3: the results are sorted by similarity_score descending, and results
\* with equal scores keep the relative order they had in the candidates input.
C3_SortedDescendingStable ==
    IsFind =>
        \A j, k \in 1..Len(response) :
            j < k =>
                /\ response[j].similarity_score >= response[k].similarity_score
                /\ response[j].similarity_score = response[k].similarity_score
                      => response[j].pos < response[k].pos

\* Three results, two of them tied, returned in an order that differs from
\* the input order.
C3_Witness ==
    /\ IsFind
    /\ Len(response) >= 3
    /\ \E j, k \in 1..Len(response) :
          j < k /\ response[j].similarity_score = response[k].similarity_score
    /\ \E j, k \in 1..Len(response) :
          j < k /\ response[j].similarity_score > response[k].similarity_score
                /\ response[j].pos > response[k].pos

\* C4: for every non-negative limit, find_similar returns at most limit results.
C4_AtMostLimitResults ==
    (IsFind /\ request.limit >= 0) => Len(response) <= request.limit

\* A call in which more candidates qualify than the limit allows and exactly
\* limit of them are returned.
C4_Witness ==
    /\ IsFind
    /\ request.limit >= 1
    /\ Len(response) = request.limit
    /\ Cardinality({i \in 1..Len(request.candidates) : Kept(ScoredAt(i))})
          > request.limit

\* C5: however large the requested limit, the number of results never exceeds
\* the fixed maximum result size (MAX_RESULT_LIMIT, at most 100), and
\* candidates beyond the maximum pool size (MAX_CANDIDATES, at most 1000) are
\* never returned.
C5_HardCapsEnforced ==
    IsFind =>
        /\ Len(response) <= MaxResultLimitCeiling
        /\ \A k \in 1..Len(response) : response[k].pos <= MaxCandidatesCeiling

PriceReturned == IsPrice /\ ~Raised(response)

\* The engine is given a valid price and an expiry date it can read: none,
\* empty, or a timestamp (future or already past).
ValidPriceCall ==
    /\ IsPrice
    /\ request.original_price > 0
    /\ request.expiry_date.kind # "invalid"

C7_DiscountWithinCap ==
    PriceReturned =>
        /\ response.discount_percentage >= 0
        /\ response.discount_percentage <= 750

\* The largest discount the engine gives: maximum urgency, seafood.
C7_Witness ==
    /\ PriceReturned
    /\ response.urgency_score = 100
    /\ Perishability(request.category) = 80
    /\ response.discount_percentage = 640

\* C8: calculate with original_price <= 0 returns a structured error result
\* holding an 'error' key, without raising.
C8_NonPositivePriceIsError ==
    (IsPrice /\ request.original_price <= 0) =>
        /\ ~Raised(response)
        /\ "error" \in DOMAIN response

\* C9: with a null, empty or unparseable expiry date a valid price is priced
\* as for 30 days until expiry: the result reports days_until_expiry = 30 and
\* discount_percentage <= 20.
C9_MissingExpiryIsThirtyDays ==
    (IsPrice /\ request.original_price > 0
             /\ request.expiry_date.kind \in {"none", "empty", "invalid"}) =>
        /\ ~Raised(response)
        /\ "days_until_expiry" \in DOMAIN response
        /\ response.days_until_expiry = 30
        /\ response.discount_percentage <= 200

\* C10: ExpiryUrgencyScorer.calculate returns 0.5 for a missing and for an
\* unparseable expiry, never raises, and its result lies in [0, 1].
C10_UrgencyNeutralNeverRaises ==
    IsUrgency =>
        /\ ~Raised(response)
        /\ response.value \in 0..100
        /\ request.expiry_date.kind \in {"none", "empty", "invalid"}
              => response.value = 50

IsSimilarApi == op = "get_similar_products"

IsPriceApi == op = "get_price_recommendation"

\* C11: every successful similarity response and every successful price
\* response carries a source tag whose value is 'ml_model' or 'rule_based'.
C11_ResponsesCarrySourceTag ==
    ((IsSimilarApi \/ IsPriceApi) /\ response.status = 200) =>
        /\ "source" \in DOMAIN response.body
        /\ response.body.source \in {"ml_model", "rule_based"}

SubScores(i) ==
    [category |-> calculate_category_score(request.target.category,
                                           request.candidates[i].category),
     text |-> calculate_text_similarity(
                  <<Document(request.target)>>
                  \o [k \in 1..Len(request.candidates) |->
                         Document(request.candidates[k])],
                  0, i),
     price |-> calculate_price_score(request.target.price,
                                     request.candidates[i].price),
     distance |-> calculate_distance_score(request.candidates[i].distance_km),
     freshness |-> calculate_freshness_score(request.target.days_until_expiry,
                                             request.candidates[i].days_until_expiry)]

FactorNames == {"category", "text", "price", "distance", "freshness"}

\* C13: the weights are 0.35, 0.25, 0.15, 0.15, 0.10 and sum to 1.0; the
\* similarity_score of every result is the weighted sum of the candidate's
\* five sub-scores rounded to three places, and match_factors holds exactly
\* the five sub-scores rounded to two places.
C13_ScoreIsWeightedSum ==
    /\ WEIGHTS = [category |-> 35, text |-> 25, price |-> 15, distance |-> 15,
                  freshness |-> 10]
    /\ WEIGHTS.category + WEIGHTS.text + WEIGHTS.price + WEIGHTS.distance
          + WEIGHTS.freshness = 100
    /\ IsFind =>
          \A k \in 1..Len(response) :
              LET s == SubScores(response[k].pos)
              IN  /\ response[k].similarity_score
                        = RoundHalfEven(35 * s.category + 25 * s.text + 15 * s.price
                                        + 15 * s.distance + 10 * s.freshness,
                                        SCALE \div 10)
                  /\ DOMAIN response[k].match_factors = FactorNames
                  /\ \A f \in FactorNames :
                        response[k].match_factors[f]
                            = RoundHalfEven(s[f], SCALE \div 100)

\* A result whose category matches and whose other four sub-scores are all
\* strictly between 0 and 1 and not all equal.
C13_Witness ==
    /\ IsFind
    /\ \E k \in 1..Len(response) :
          LET m == response[k].match_factors
          IN  /\ m.category = 100
              /\ \A f \in FactorNames \ {"category"} : m[f] > 0 /\ m[f] < 100
              /\ m.price # m.distance
              /\ m.text # m.freshness
              /\ response[k].similarity_score < 1000

\* The candidates of the call being served that find_similar scores.
ScoredCandidates ==
    {i \in 1..Len(request.candidates) :
        ~SkipCandidate(request.target, request.candidates[i])}

MissingFactors(i) ==
    LET target == request.target
        candidate == request.candidates[i]
    IN  {f \in FactorNames :
            \/ f = "category"
                  /\ (FalsyStr(target.category) \/ FalsyStr(candidate.category))
            \/ f = "text"
                  /\ (Document(target) = <<>> \/ Document(candidate) = <<>>)
            \/ f = "price" /\ (target.price = None \/ candidate.price = None)
            \/ f = "distance" /\ candidate.distance_km = None
            \/ f = "freshness"
                  /\ (target.days_until_expiry = None
                      \/ candidate.days_until_expiry = None)}

IsCategoryScore == op = "calculate_category_score"

\* The relatedness table as pairs <<target category, related candidate category>>.
RelatedPairs ==
    {<<"produce", "frozen">>, <<"dairy", "beverages">>, <<"meat", "frozen">>,
     <<"bakery", "pantry">>, <<"frozen", "meat">>, <<"frozen", "dairy">>,
     <<"beverages", "dairy">>, <<"pantry", "bakery">>}

IsPriceScore == op = "calculate_price_score"

IsDistanceScore == op = "calculate_distance_score"

\* C18: for every distance d >= 0 (max_distance 10 km),
\* calculate_distance_score(d) is max(0, 1 - d / 10): 1.0 for d = 0, exactly
\* 0 for every d >= 10 km, and never negative.
C18_DistanceScoreFormula ==
    (IsDistanceScore /\ request.distance_km >= 0) =>
        LET d == request.distance_km
        IN  /\ response.value * 100 = Max(0, SCALE * (100 - d))
            /\ d = 0 => response.value = SCALE
            /\ d >= 100 => response.value = 0
            /\ response.value >= 0

\* Distance 0 scores 1.0, not the 0.5 of a missing distance.
C18_Witness ==
    /\ IsDistanceScore
    /\ request.distance_km = 0
    /\ response.value = SCALE
    /\ calculate_distance_score(None) = SCALE \div 2

\* C19: a similarity request with a target and an empty candidates list is
\* answered 200 with similar_products = [] and count = 0; in every successful
\* similarity response count is the length of similar_products and threshold
\* is 0.5.
C19_EmptyCandidatesAnswered ==
    IsSimilarApi =>
        /\ ({"target", "candidates"} \subseteq request.keys
                /\ request.candidates = <<>>) =>
              /\ response.status = 200
              /\ response.body.similar_products = <<>>
              /\ response.body.count = 0
        /\ response.status = 200 =>
              /\ response.body.count = Len(response.body.similar_products)
              /\ response.body.threshold = 50

FindSimilarServed == op \in {"find_similar", "find_similar_raised"}

\* C20: find_similar never raises, whatever optional fields of the target or
\* of a candidate are missing, null or of the wrong type: it always returns a
\* list.
C20_FindSimilarNeverRaises ==
    FindSimilarServed => op = "find_similar"

PassthroughFields ==
    {"id", "sellerId", "title", "description", "category", "price",
     "originalPrice", "quantity", "unit", "expiryDate", "pickupLocation", "images",
     "status", "createdAt", "seller"}

\* C21: find_similar leaves the target record and every candidate record as
\* they were passed, and in every result each passthrough field equals the
\* field of the candidate the result was built from.
C21_InputsUnchangedFieldsEchoed ==
    IsFind =>
        /\ request.after.target = request.target
        /\ request.after.candidates = request.candidates
        /\ \A k \in 1..Len(response) :
              /\ PassthroughFields \subseteq DOMAIN response[k]
              /\ \A f \in PassthroughFields :
                    response[k][f] = request.candidates[response[k].pos][f]

\* Two results with different display values and a result built from a
\* listing without display fields, returned in an order other than the input
\* order.
C21_Witness ==
    /\ IsFind
    /\ \E i, j, k \in 1..Len(response) :
          /\ i < j /\ j < k
          /\ response[j].pos > response[k].pos
          /\ response[i].quantity # None
          /\ response[j].quantity # None
          /\ response[i].originalPrice # response[j].originalPrice
          /\ response[j].images # NoneStr
          /\ response[k].images = NoneStr
          /\ response[k].originalPrice = None

\* The urgency steps as <<lowest day count, highest day count, urgency>>.
UrgencySteps ==
    {<<0 - PastDays, 0, 100>>, <<1, 1, 95>>, <<2, 3, 80>>, <<4, 7, 50>>,
     <<8, 14, 30>>, <<15, MaxDays + 1, 10>>}

IsoUrgencyCall == IsUrgency /\ request.expiry_date.kind = "iso"

\* C22: with d the whole days from now to the expiry, the urgency is 1.0 for
\* d <= 0, 0.95 for d <= 1, 0.8 for d <= 3, 0.5 for d <= 7, 0.3 for d <= 14
\* and 0.1 beyond; an expired item gets 1.0 and no error; the urgency is
\* non-increasing in d.
C22_UrgencyStepFunction ==
    IsoUrgencyCall =>
        LET d == TimedeltaDays(request.expiry_date.hours)
        IN  /\ ~Raised(response)
            /\ \E step \in UrgencySteps :
                  d >= step[1] /\ d <= step[2] /\ response.value = step[3]
            /\ d < 0 => response.value = 100
            /\ \A later \in ExpiryDates :
                  (later.kind = "iso" /\ TimedeltaDays(later.hours) >= d) =>
                      ExpiryUrgencyScorer_calculate(later).value <= response.value

\* An item with exactly 14 whole days left is still in the 0.3 step, one with
\* 15 days is not, and an item that expired an hour ago has urgency 1.0.
C22_Witness ==
    /\ IsoUrgencyCall
    /\ TimedeltaDays(request.expiry_date.hours) = 14
    /\ response.value = 30
    /\ ExpiryUrgencyScorer_calculate(
           [kind |-> "iso", hours |-> 15 * HoursPerDay]).value = 10
    /\ ExpiryUrgencyScorer_calculate([kind |-> "iso", hours |-> 0 - 1]).value = 100

\* The day intervals of the discount tiers, <<first day, last day>>.
TierIntervals == {<<0, 1>>, <<2, 3>>, <<4, 7>>, <<8, 14>>, <<15, MaxDays + 1>>}

IsoDates == {e \in ExpiryDates : e.kind = "iso"}

\* A call of the price engine with a timestamp as expiry date, which returned.
DatedPriceCall == PriceReturned /\ request.expiry_date.kind = "iso"

\* The recommendation for the arguments of the call being served, with
\* another expiry date.
SamePriceOtherDate(expiry_date) ==
    PriceRecommender_calculate(request.original_price, expiry_date, request.category)

\* C23: for a fixed price and category, any two day counts inside the same
\* interval [0,1], [2,3], [4,7], [8,14] or [15, unbounded) get the same
\* discount_percentage; in particular an item expiring today (0 days) and one
\* expiring tomorrow (1 day) get the same discount.
C23_SameTierSameDiscount ==
    DatedPriceCall =>
        LET d == TimedeltaDays(request.expiry_date.hours)
        IN  \A tier \in TierIntervals, other \in IsoDates :
                LET e == TimedeltaDays(other.hours)
                IN  (d >= tier[1] /\ d <= tier[2] /\ e >= tier[1] /\ e <= tier[2]) =>
                        SamePriceOtherDate(other).discount_percentage
                            = response.discount_percentage

\* C24: for a fixed original_price > 0 and a fixed category,
\* discount_percentage is non-increasing and recommended_price non-decreasing
\* in the days until expiry.
C24_DiscountMonotoneInDays ==
    (DatedPriceCall /\ request.original_price > 0) =>
        \A later \in IsoDates :
            TimedeltaDays(later.hours) >= TimedeltaDays(request.expiry_date.hours) =>
                /\ SamePriceOtherDate(later).discount_percentage
                      <= response.discount_percentage
                /\ SamePriceOtherDate(later).recommended_price
                      >= response.recommended_price

\* An item with 7 days left is priced strictly lower, at a strictly higher
\* discount, than the same item with 8 days left.
C24_Witness ==
    /\ DatedPriceCall
    /\ request.original_price > 0
    /\ TimedeltaDays(request.expiry_date.hours) = 7
    /\ LET later == SamePriceOtherDate([kind |-> "iso", hours |-> 8 * HoursPerDay])
       IN  /\ later.discount_percentage < response.discount_percentage
           /\ later.recommended_price > response.recommended_price

\* The recommendation for the arguments of the call being served, with
\* another category.
SamePriceOtherCategory(category) ==
    PriceRecommender_calculate(request.original_price, request.expiry_date, category)

\* The freshness-retention factor of each category of the table, in hundredths.
RetentionFactor ==
    [dairy |-> 90, meat |-> 85, seafood |-> 80, produce |-> 85, bakery |-> 90,
     frozen |-> 95, canned |-> 98, beverages |-> 95, snacks |-> 95, other |-> 90]

\* The retention factor the call being served is priced with, if a category
\* outside the table and a null category are priced as 'other'.
RequestRetentionFactor ==
    IF FalsyStr(request.category) \/ Lower(request.category) \notin DOMAIN RetentionFactor
    THEN RetentionFactor["other"]
    ELSE RetentionFactor[Lower(request.category)]

\* C25: for a fixed original_price and expiry date, a category with a lower
\* retention factor never gets a smaller discount_percentage than one with a
\* higher factor; seafood and meat get a strictly larger discount than
\* canned; a category outside the table, or a null category, is priced with
\* the factor of 'other' and raises nothing.
C25_PerishableDiscountedMore ==
    (IsPrice /\ request.expiry_date.kind # "invalid") =>
        /\ ~Raised(response)
        /\ \A b \in DOMAIN RetentionFactor :
              /\ RetentionFactor[b] >= RequestRetentionFactor =>
                    SamePriceOtherCategory(b).discount_percentage
                        <= response.discount_percentage
              /\ RetentionFactor[b] <= RequestRetentionFactor =>
                    SamePriceOtherCategory(b).discount_percentage
                        >= response.discount_percentage
        /\ Lower(request.category) \in {"seafood", "meat"} =>
              response.discount_percentage
                  > SamePriceOtherCategory("canned").discount_percentage
        /\ (FalsyStr(request.category)
                \/ Lower(request.category) \notin DOMAIN RetentionFactor) =>
              \A f \in DOMAIN response \ {"reasoning"} :
                  response[f] = SamePriceOtherCategory("other")[f]

\* A null category priced like 'other', at a discount strictly between that
\* of seafood and that of canned.
C25_Witness ==
    /\ IsPrice
    /\ request.category = NoneStr
    /\ request.expiry_date.kind = "iso"
    /\ request.original_price > 0
    /\ response.discount_percentage = SamePriceOtherCategory("other").discount_percentage
    /\ response.discount_percentage < SamePriceOtherCategory("seafood").discount_percentage
    /\ response.discount_percentage > SamePriceOtherCategory("canned").discount_percentage

IsPriceSubCent == op = "price_subcent"

\* A call of the price engine, with a price in whole cents or not, for an
\* item with at most one whole day left.
UrgentPriceCall ==
    /\ IsPrice \/ IsPriceSubCent
    /\ request.original_price > 0
    /\ request.expiry_date.kind = "iso"
    /\ TimedeltaDays(request.expiry_date.hours) <= 1

\* request.original_price in tenths of a cent
OriginalPriceTenths ==
    IF IsPriceSubCent THEN request.original_price ELSE 10 * request.original_price

\* discount_percentage >= 50 and recommended_price <= 0.6 * original_price
HalfOff ==
    /\ ~Raised(response)
    /\ response.discount_percentage >= 500
    /\ 100 * response.recommended_price <= 6 * OriginalPriceTenths

\* C26 as stated: for every category and every original_price > 0, an item
\* with at most 1 day until expiry gets discount_percentage >= 50 and
\* recommended_price <= 0.6 * original_price.
C26_UrgentItemsHalfOff ==
    UrgentPriceCall => HalfOff

\* C26 as amended: the same for every original_price > 0 that is a whole
\* number of cents and for every original_price of at least 0.03; below 0.03
\* the rounding of recommended_price to cents can exceed 0.6 * original_price.
C26_UrgentItemsHalfOffFromThreeCents ==
    (UrgentPriceCall /\ (IsPrice \/ OriginalPriceTenths >= 30)) => HalfOff

\* A canned item (the smallest discount) at 3.6 cents with one day left:
\* recommended_price is rounded up to 0.02 and is within 0.6 * original_price.
C26_Witness ==
    /\ UrgentPriceCall
    /\ IsPriceSubCent
    /\ request.original_price = 36
    /\ request.category = "canned"
    /\ TimedeltaDays(request.expiry_date.hours) = 1
    /\ response.discount_percentage = 574
    /\ response.recommended_price = 2

\* The candidates of the call being served that survive the exclusion, in
\* input order.
Survivors ==
    LET Survives(candidate) == ~SkipCandidate(request.target, candidate)
    IN  SelectSeq(request.candidates, Survives)

\* The position among the survivors of the surviving candidate i.
SurvivorIndex(i) == Cardinality(ScoredCandidates \cap 1..i)

\* The scores candidate i gets when the excluded candidates are removed from
\* the input.
ScoredAmongSurvivors(i) ==
    ScoreCandidate(request.target, Survivors,
                   <<Document(request.target)>>
                   \o [k \in 1..Len(Survivors) |-> Document(Survivors[k])],
                   SurvivorIndex(i))

\* C27: the documents given to the vectorizer are the target's and those of
\* the surviving candidates only, so the text sub-score and the score of a
\* candidate are the same with and without the excluded candidates (same id
\* or same sellerId as the target) in the input.
C27_ExcludedCandidatesWithoutInfluence ==
    IsFind =>
        \A i \in ScoredCandidates :
            /\ ScoredAmongSurvivors(i).match_factors.text
                  = ScoredAt(i).match_factors.text
            /\ ScoredAmongSurvivors(i).total_score = ScoredAt(i).total_score

\* The candidates of the call being served that are eligible: neither the
\* target's id nor its sellerId, combined score at least 0.5.
Eligible == {i \in ScoredCandidates : PassesThreshold(ScoredAt(i).total_score)}

Returned == {response[k].pos : k \in 1..Len(response)}

\* The text of a listing as the vectorizer gets it.
ProcessedDocument(listing) ==
    IF Document(listing) = <<>> THEN <<"unknown">> ELSE Document(listing)

\* The similarity of the target's document and candidate i's document, in
\* the corpus of the call being served, rounded as match_factors is.
TargetCandidateSimilarity(i) ==
    LET corpus == <<ProcessedDocument(request.target)>>
                  \o [k \in 1..Len(request.candidates) |->
                         ProcessedDocument(request.candidates[k])]
        vocabulary == UNION {Terms(corpus[k]) : k \in 1..Len(corpus)}
    IN  RoundHalfEven(IF vocabulary = {} THEN SCALE \div 2
                      ELSE Cosine(corpus, ProcessedDocument(request.target),
                                  ProcessedDocument(request.candidates[i])),
                      SCALE \div 100)

\* What C28 says of a call apart from the number of results, with eligible
\* the set of eligible candidates: the results are eligible candidates, each
\* at most once, scored on their own text, and no eligible candidate left out
\* has a higher similarity_score than a result.
TopOfEligible(eligible) ==
    /\ Returned \subseteq eligible
    /\ Cardinality(Returned) = Len(response)
    /\ \A k \in 1..Len(response) :
          response[k].match_factors.text = TargetCandidateSimilarity(response[k].pos)
    /\ \A i \in eligible \ Returned :
          LET similarity_score == RoundHalfEven(ScoredAt(i).total_score, SCALE \div 10)
          IN  \A k \in 1..Len(response) :
                  similarity_score <= response[k].similarity_score

IsInventory == op = "analyze_inventory"

\* The urgency of product i of the call being served, in hundredths.
ProductUrgency(i) ==
    ExpiryUrgencyScorer_calculate(request.products[i].expiry_date).value

PriorityRank(priority) ==
    CASE priority = "high" -> 1 [] priority = "medium" -> 2 [] priority = "low" -> 3

\* C29: analyze_inventory emits at most one notification per product, exactly
\* for the products whose urgency is >= 0.5 (critical_expiry / high from 0.9,
\* expiring_soon / medium from 0.7, plan_ahead / low from 0.5, a product
\* without expiry date included), ordered high, medium, low, with the input
\* order kept among products of the same priority.
C29_OneNotificationPerUrgentProduct ==
    IsInventory =>
        /\ \A j, k \in 1..Len(response) : j # k => response[j].pos # response[k].pos
        /\ {response[k].pos : k \in 1..Len(response)}
              = {i \in 1..Len(request.products) : ProductUrgency(i) >= 50}
        /\ \A k \in 1..Len(response) :
              LET urgency == ProductUrgency(response[k].pos)
              IN  /\ <<response[k].type, response[k].priority>>
                        = IF urgency >= 90 THEN <<"critical_expiry", "high">>
                          ELSE IF urgency >= 70 THEN <<"expiring_soon", "medium">>
                          ELSE <<"plan_ahead", "low">>
                  /\ response[k].product_id
                        = request.products[response[k].pos].product_id
        /\ \A i \in 1..Len(request.products) :
              request.products[i].expiry_date.kind = "none" =>
                  \E k \in 1..Len(response) :
                      response[k].pos = i /\ response[k].type = "plan_ahead"
        /\ \A j, k \in 1..Len(response) :
              j < k =>
                  /\ PriorityRank(response[j].priority)
                        <= PriorityRank(response[k].priority)
                  /\ response[j].priority = response[k].priority
                        => response[j].pos < response[k].pos

\* An inventory of a product without expiry date, one with two weeks left,
\* one with a week left and an expired one: the expired one is notified
\* first, then the first and the third in input order, the second not at all.
C29_Witness ==
    /\ IsInventory
    /\ Len(request.products) = 4
    /\ request.products[1].expiry_date.kind = "none"
    /\ ProductUrgency(2) = 30
    /\ Len(response) = 3
    /\ response[1].pos = 4 /\ response[1].priority = "high"
    /\ response[2].pos = 1 /\ response[2].priority = "low"
    /\ response[3].pos = 3 /\ response[3].priority = "low"

IsSecurityReport == op = "generate_security_report"

\* Some scan result of the report being served holds a critical or high
\* finding.
HoldsCriticalOrHigh ==
    \E k \in 1..Len(response.results) :
        HasSeverity(response.results[k].findings, {"critical", "high"})

\* C30: whenever a scan result returned by collect_all holds a finding of
\* severity critical or high (the risk assessment is then High, Elevated or
\* Moderate Risk), overall_status is 'fail'; overall_status is 'pass' only
\* when no scan holds such a finding.
C30_CriticalOrHighFailsReport ==
    IsSecurityReport =>
        /\ HoldsCriticalOrHigh
              <=> response.risk_level \in {"High Risk", "Elevated Risk", "Moderate Risk"}
        /\ HoldsCriticalOrHigh => response.status = "fail"
        /\ response.status = "pass" => ~HoldsCriticalOrHigh

====
